---- MODULE Spec2Model ----
(***************************************************************************)
(* Model of allocate_seating_with_optimization (src/Task1.py:49-130), the  *)
(* exam room allocator.  One behaviour is one call: Init fixes the three   *)
(* input tables, buffer_size and seating_type and evaluates lines 51-57;   *)
(* the actions are the iterations of the course loop (line 59) and of the  *)
(* room loops (lines 75-126), and the final sort and return (129-130).     *)
(***************************************************************************)
EXTENDS Integers, Sequences, FiniteSets, TLC

\* ------------------------------------------------------------- bounds
MaxStudents == 3      \* rows of the roster ip_1
MaxRooms == 2         \* rows of the room table ip_3
MaxCapacity == 3      \* largest room capacity
MaxBuffer == 1        \* largest buffer_size

\* ------------------------------------------------------------- input domains
Courses == {"CS1", "CS2"}
Blocks == {"Block 9", "LT", "Block 10"}
\* exam_date strings 'dd/mm/yyyy' as their fields <<dd, mm, yyyy>>; the two
\* strings are ordered one way as text and the other way as calendar dates
DateStrings == {<<2, 1, 2025>>, <<1, 2, 2025>>}
SeatingTypes == {"dense", "sparse", "compact"}
NoDate == <<>>

prioritized_blocks == <<"Block 9", "LT">>

VARIABLES
    ip_1,                      \* roster: sequence of [roll_no, course]
    ip_2,                      \* timetable: sequence of [course, exam_date]
    ip_3,                      \* rooms: sequence of [room_name, block, capacity]
    buffer_size,
    seating_type,
    sorted_courses,            \* line 53
    rooms_in_order,            \* lines 75-81: the rooms in visiting order
    pc,                        \* "course" | "room" | "done" | "error"
    ci,                        \* position of the course loop in sorted_courses
    ri,                        \* position of the room loops in rooms_in_order
    exam_date,                 \* date of the current course, <<yyyy, mm, dd>>
    students,                  \* roll numbers of the current course not yet seated
    num_students,
    room_allocation_by_date,   \* date -> room_name -> seated count
    seating_plan,              \* records in emission order
    seating_plan_sorted        \* the returned sequence

vars == <<ip_1, ip_2, ip_3, buffer_size, seating_type, sorted_courses,
          rooms_in_order, pc, ci, ri, exam_date, students, num_students,
          room_allocation_by_date, seating_plan, seating_plan_sorted>>

inputs == <<ip_1, ip_2, ip_3, buffer_size, seating_type, sorted_courses,
            rooms_in_order>>

\* ------------------------------------------------------------- helpers
Min(a, b) == IF a <= b THEN a ELSE b

Range(s) == {s[i] : i \in 1..Len(s)}

SeqsUpTo(S, n) == UNION {[1..k -> S] : k \in 0..n}

\* the orderings of a finite set
Perms(S) == {s \in [1..Cardinality(S) -> S] : \A i, j \in 1..Cardinality(S) : i # j => s[i] # s[j]}

\* datetime.strptime(s, '%d/%m/%Y').date(): a date compares as (year, month, day)
strptime(s) == <<s[3], s[2], s[1]>>

\* date.strftime('%d/%m/%Y')
strftime(d) == <<d[3], d[2], d[1]>>

\* date < date
DateLess(a, b) ==
    \/ a[1] < b[1]
    \/ a[1] = b[1] /\ a[2] < b[2]
    \/ a[1] = b[1] /\ a[2] = b[2] /\ a[3] < b[3]

\* course_groups.get_group(course): the rows of the course, in roster order
get_group(roster, course) == SelectSeq(roster, LAMBDA r : r.course = course)

\* course_groups.size()
GroupSize(roster, course) == Len(get_group(roster, course))

RosterCourses(roster) == {roster[i].course : i \in 1..Len(roster)}

SortedCoursesAscending(roster) ==
    {s \in Perms(RosterCourses(roster)) :
        \A i, j \in 1..Len(s) : i < j => GroupSize(roster, s[i]) <= GroupSize(roster, s[j])}

\* size().sort_values(ascending=False).index: every group once, sizes
\* non-increasing; the order among equal sizes is whatever the sort gives
SortedCourses(roster) ==
    {s \in Perms(RosterCourses(roster)) :
        \A i, j \in 1..Len(s) : i < j => GroupSize(roster, s[i]) >= GroupSize(roster, s[j])}

BlockRank(b) == CHOOSE k \in 1..Len(prioritized_blocks) : prioritized_blocks[k] = b

RoomsInOrderAscending(rooms) ==
    LET eligible == {i \in 1..Len(rooms) : rooms[i].block \in Range(prioritized_blocks)}
    IN {s \in Perms(eligible) :
          \A i, j \in 1..Len(s) : i < j =>
             \/ BlockRank(rooms[s[i]].block) < BlockRank(rooms[s[j]].block)
             \/ /\ rooms[s[i]].block = rooms[s[j]].block
                /\ rooms[s[i]].capacity <= rooms[s[j]].capacity}

\* the rooms the loops of lines 75-81 visit, as positions in the room table:
\* the blocks of prioritized_blocks in order (a block without rooms is skipped),
\* each block's rooms by descending capacity
RoomsInOrder(rooms) ==
    LET eligible == {i \in 1..Len(rooms) : rooms[i].block \in Range(prioritized_blocks)}
    IN {s \in Perms(eligible) :
          \A i, j \in 1..Len(s) : i < j =>
             \/ BlockRank(rooms[s[i]].block) < BlockRank(rooms[s[j]].block)
             \/ /\ rooms[s[i]].block = rooms[s[j]].block
                /\ rooms[s[i]].capacity >= rooms[s[j]].capacity}

\* ip_2.loc[ip_2['course'] == course, 'exam_date'].values
ExamDates(timetable, course) == SelectSeq(timetable, LAMBDA e : e.course = course)

max_course_capacity_ceil(mode, remaining_capacity, n) ==
    IF mode = "dense" THEN Min(remaining_capacity, n)
    ELSE Min((remaining_capacity + 1) \div 2, n)

max_course_capacity_half(mode, remaining_capacity, n) ==
    Min(remaining_capacity \div 2, n)

\* lines 96-99
max_course_capacity(mode, remaining_capacity, n) ==
    IF mode = "dense" THEN Min(remaining_capacity, n)
    ELSE Min(remaining_capacity \div 2, n)

room_capacity_nobuffer(room, buffer) == room.capacity

\* line 83
room_capacity(room, buffer) == room.capacity - buffer

\* students.iloc[:k], line 105
iloc_head(s, k) == SubSeq(s, 1, Min(k, Len(s)))

iloc_tail_keep(s, k) == s

\* students.iloc[k:], line 120
iloc_tail(s, k) == SubSeq(s, Min(k, Len(s)) + 1, Len(s))

\* the record appended at lines 108-115 (the weekday column 'Day' is a function
\* of Date and is left out)
Record(date, course, room_name, assigned_students) ==
    [Date |-> strftime(date), course_code |-> course, Room |-> room_name,
     Allocated_students_count |-> Len(assigned_students),
     Roll_list |-> assigned_students]

SortKeyText(x) == x.Date

\* the key of the sort at line 129
SortKey(x) == strptime(x.Date)

\* list.insert before the first element whose key is greater than x's
InsertByKey(s, x) ==
    LET later == {i \in 1..Len(s) : DateLess(SortKey(x), SortKey(s[i]))}
        k == IF later = {} THEN Len(s) + 1 ELSE CHOOSE i \in later : \A j \in later : i <= j
    IN SubSeq(s, 1, k - 1) \o <<x>> \o SubSeq(s, k, Len(s))

\* sorted(seating_plan, key=...): ascending and stable
RECURSIVE sorted(_)
sorted(s) ==
    IF s = <<>> THEN <<>>
    ELSE InsertByKey(sorted(SubSeq(s, 1, Len(s) - 1)), s[Len(s)])

\* ------------------------------------------------------------- inputs
\* Courses are told apart only by the timetable, which ranges over every
\* assignment of dates: it is enough to let the first row be of one course.
Rosters ==
    UNION {{[i \in 1..n |-> [roll_no |-> i, course |-> f[i]]] :
              f \in {g \in [1..n -> Courses] : n > 0 => g[1] = "CS1"}} :
             n \in 0..MaxStudents}

\* at most one row per course
Timetables ==
    {t \in SeqsUpTo([course : Courses, exam_date : DateStrings], Cardinality(Courses)) :
        \A i, j \in 1..Len(t) : i # j => t[i].course # t[j].course}

BlockIndex(b) == CASE b = "LT" -> 0 [] b = "Block 9" -> 1 [] OTHER -> 2

\* A room is named by its row, so tables that differ by a permutation of their
\* rows behave alike up to the names: one table per multiset of (block,
\* capacity), its rows by ascending capacity (the opposite of the visiting
\* order) and, at equal capacity, by block.
RoomTables ==
    UNION {{t \in [1..n -> [room_name : 1..n, block : Blocks, capacity : 1..MaxCapacity]] :
              /\ \A i \in 1..n : t[i].room_name = i
              /\ \A i \in 1..(n - 1) :
                    \/ t[i].capacity < t[i + 1].capacity
                    \/ /\ t[i].capacity = t[i + 1].capacity
                       /\ BlockIndex(t[i].block) <= BlockIndex(t[i + 1].block)} :
             n \in 0..MaxRooms}

\* lines 49-57
Init ==
    /\ ip_1 \in Rosters
    /\ ip_2 \in Timetables
    /\ ip_3 \in RoomTables
    /\ buffer_size \in 0..MaxBuffer
    /\ seating_type \in SeatingTypes
    /\ sorted_courses \in SortedCourses(ip_1)
    /\ rooms_in_order \in RoomsInOrder(ip_3)
    /\ pc = "course"
    /\ ci = 1
    /\ ri = 0
    /\ exam_date = NoDate
    /\ students = <<>>
    /\ num_students = 0
    /\ room_allocation_by_date = <<>>
    /\ seating_plan = <<>>
    /\ seating_plan_sorted = <<>>

\* ------------------------------------------------------------- course loop
SkipCourseBreak ==
    /\ pc = "course"
    /\ ci <= Len(sorted_courses)
    /\ Len(ExamDates(ip_2, sorted_courses[ci])) = 0
    /\ ci' = Len(sorted_courses) + 1
    /\ UNCHANGED <<inputs, pc, ri, exam_date, students, num_students,
                   room_allocation_by_date, seating_plan, seating_plan_sorted>>

\* lines 64-66: the course has no timetable row
SkipCourse ==
    /\ pc = "course"
    /\ ci <= Len(sorted_courses)
    /\ Len(ExamDates(ip_2, sorted_courses[ci])) = 0
    /\ ci' = ci + 1
    /\ UNCHANGED <<inputs, pc, ri, exam_date, students, num_students,
                   room_allocation_by_date, seating_plan, seating_plan_sorted>>

\* the dictionary of line 72
EmptyRooms(rooms) == [r \in {rooms[i].room_name : i \in 1..Len(rooms)} |-> 0]

\* lines 60-72, up to the first room of the loops of lines 75-81
BeginCourse ==
    /\ pc = "course"
    /\ ci <= Len(sorted_courses)
    /\ LET course == sorted_courses[ci]
           group == get_group(ip_1, course)
           dates == ExamDates(ip_2, course)
       IN /\ Len(dates) # 0
          /\ students' = [i \in 1..Len(group) |-> group[i].roll_no]
          /\ num_students' = Len(group)
          /\ exam_date' = strptime(dates[1].exam_date)
          /\ room_allocation_by_date' =
                IF exam_date' \in DOMAIN room_allocation_by_date
                THEN room_allocation_by_date
                ELSE [d \in DOMAIN room_allocation_by_date \cup {exam_date'} |->
                        IF d \in DOMAIN room_allocation_by_date
                        THEN room_allocation_by_date[d] ELSE EmptyRooms(ip_3)]
    /\ IF Len(rooms_in_order) = 0
       THEN pc' = "course" /\ ci' = ci + 1 /\ ri' = ri
       ELSE pc' = "room" /\ ci' = ci /\ ri' = 1
    /\ UNCHANGED <<inputs, seating_plan, seating_plan_sorted>>

\* ------------------------------------------------------------- room loops
CurrentRoom == ip_3[rooms_in_order[ri]]

\* line 86
allocated_students == room_allocation_by_date[exam_date][CurrentRoom.room_name]

\* line 93
remaining_capacity == room_capacity(CurrentRoom, buffer_size) - allocated_students

NextRoomFirstOnly(left) ==
    pc' = "course" /\ ci' = ci + 1 /\ ri' = ri

\* lines 123-126 and the loop headers: leave the loops when nobody is left or
\* the rooms are exhausted, else go on to the next room
NextRoom(left) ==
    IF left <= 0 \/ ri = Len(rooms_in_order)
    THEN pc' = "course" /\ ci' = ci + 1 /\ ri' = ri
    ELSE pc' = "room" /\ ci' = ci /\ ri' = ri + 1

\* lines 89-90: continue, past the test of line 123
SkipFullRoom ==
    /\ pc = "room"
    /\ allocated_students >= room_capacity(CurrentRoom, buffer_size)
    /\ IF ri = Len(rooms_in_order)
       THEN pc' = "course" /\ ci' = ci + 1 /\ ri' = ri
       ELSE pc' = "room" /\ ci' = ci /\ ri' = ri + 1
    /\ UNCHANGED <<inputs, exam_date, students, num_students,
                   room_allocation_by_date, seating_plan, seating_plan_sorted>>

\* lines 100-101
RaiseValueError ==
    /\ pc = "room"
    /\ allocated_students < room_capacity(CurrentRoom, buffer_size)
    /\ seating_type \notin {"dense", "sparse"}
    /\ pc' = "error"
    /\ UNCHANGED <<inputs, ci, ri, exam_date, students, num_students,
                   room_allocation_by_date, seating_plan, seating_plan_sorted>>

\* lines 103-121
SeatStudents ==
    /\ pc = "room"
    /\ allocated_students < room_capacity(CurrentRoom, buffer_size)
    /\ seating_type \in {"dense", "sparse"}
    /\ LET take == max_course_capacity(seating_type, remaining_capacity, num_students)
           assigned_students == iloc_head(students, take)
       IN /\ take > 0
          /\ seating_plan' = Append(seating_plan,
                Record(exam_date, sorted_courses[ci], CurrentRoom.room_name, assigned_students))
          /\ room_allocation_by_date' =
                [room_allocation_by_date EXCEPT ![exam_date][CurrentRoom.room_name] =
                    @ + Len(assigned_students)]
          /\ students' = iloc_tail(students, take)
          /\ num_students' = num_students - Len(assigned_students)
          /\ NextRoom(num_students')
    /\ UNCHANGED <<inputs, exam_date, seating_plan_sorted>>

\* line 103 false: nothing is seated in this room
SeatNobody ==
    /\ pc = "room"
    /\ allocated_students < room_capacity(CurrentRoom, buffer_size)
    /\ seating_type \in {"dense", "sparse"}
    /\ max_course_capacity(seating_type, remaining_capacity, num_students) <= 0
    /\ NextRoom(num_students)
    /\ UNCHANGED <<inputs, exam_date, students, num_students,
                   room_allocation_by_date, seating_plan, seating_plan_sorted>>

\* lines 129-130
Return ==
    /\ pc = "course"
    /\ ci > Len(sorted_courses)
    /\ seating_plan_sorted' = sorted(seating_plan)
    /\ pc' = "done"
    /\ UNCHANGED <<inputs, ci, ri, exam_date, students, num_students,
                   room_allocation_by_date, seating_plan>>

Next ==
    \/ SkipCourse
    \/ BeginCourse
    \/ SkipFullRoom
    \/ RaiseValueError
    \/ SeatStudents
    \/ SeatNobody
    \/ Return

Spec == Init /\ [][Next]_vars

\* ------------------------------------------------------------- the call as a function
\* One room of the loops (lines 82-121) on st = [occ, plan, students, n], for a
\* recognised seating_type.
RoomVisit(st, date, course, room) ==
    LET cap == room_capacity(room, buffer_size)
        alloc == st.occ[date][room.room_name]
        take == max_course_capacity(seating_type, cap - alloc, st.n)
        who == iloc_head(st.students, take)
    IN IF alloc >= cap \/ take <= 0 THEN st
       ELSE [occ |-> [st.occ EXCEPT ![date][room.room_name] = @ + Len(who)],
             plan |-> Append(st.plan, Record(date, course, room.room_name, who)),
             students |-> iloc_tail(st.students, take),
             n |-> st.n - Len(who)]

\* the room loops (lines 75-126) from position k of the visiting order
RECURSIVE VisitRooms(_, _, _, _)
VisitRooms(st, date, course, k) ==
    IF k > Len(rooms_in_order) \/ st.n <= 0 THEN st
    ELSE VisitRooms(RoomVisit(st, date, course, ip_3[rooms_in_order[k]]), date, course, k + 1)

\* the course loop (lines 59-126) over the courses cs, every one of which has
\* a timetable row; the result is [occ, plan]
RECURSIVE AllocateCourses(_, _)
AllocateCourses(cs, acc) ==
    IF cs = <<>> THEN acc
    ELSE LET course == cs[1]
             group == get_group(ip_1, course)
             date == strptime(ExamDates(ip_2, course)[1].exam_date)
             occ == IF date \in DOMAIN acc.occ THEN acc.occ
                    ELSE [d \in DOMAIN acc.occ \cup {date} |->
                            IF d \in DOMAIN acc.occ THEN acc.occ[d] ELSE EmptyRooms(ip_3)]
             st == VisitRooms([occ |-> occ, plan |-> acc.plan,
                               students |-> [i \in 1..Len(group) |-> group[i].roll_no],
                               n |-> Len(group)], date, course, 1)
         IN AllocateCourses(Tail(cs), [occ |-> st.occ, plan |-> st.plan])

\* ------------------------------------------------------------- vocabulary of the properties
ValidMode == seating_type \in {"dense", "sparse"}

HasDate(course) == \E i \in 1..Len(ip_2) : ip_2[i].course = course

\* the calendar date of a course with a timetable row
DateOf(course) ==
    LET e == CHOOSE x \in Range(ip_2) : x.course = course
    IN <<e.exam_date[3], e.exam_date[2], e.exam_date[1]>>

RoomNamed(name) == CHOOSE r \in Range(ip_3) : r.room_name = name

RECURSIVE SumCounts(_)
SumCounts(plan) ==
    IF plan = <<>> THEN 0 ELSE plan[1].Allocated_students_count + SumCounts(Tail(plan))

\* students a plan seats in a room on a date (Date as written in the records)
SeatedIn(plan, room_name, date) ==
    SumCounts(SelectSeq(plan, LAMBDA x : x.Room = room_name /\ x.Date = date))

\* students of a course a plan seats
SeatedOf(plan, course) ==
    SumCounts(SelectSeq(plan, LAMBDA x : x.course_code = course))

RECURSIVE ConcatRolls(_)
ConcatRolls(plan) ==
    IF plan = <<>> THEN <<>> ELSE plan[1].Roll_list \o ConcatRolls(Tail(plan))

RollsOf(course) ==
    LET g == get_group(ip_1, course) IN [i \in 1..Len(g) |-> g[i].roll_no]

Plans == {seating_plan, seating_plan_sorted}

AdjustedCapacity(room) == room.capacity - buffer_size

Eligible(room) == room.block = "Block 9" \/ room.block = "LT"

\* room a comes strictly before room b in the visiting order
VisitedBefore(a, b) ==
    \/ a.block = "Block 9" /\ b.block = "LT"
    \/ a.block = b.block /\ a.capacity > b.capacity

\* ------------------------------------------------------------- C1
\* C1: at every step of a call and in its result, for every (room, date) that
\* occurs in a record, the counts of the records of that room and date sum to
\* at most capacity(room) - buffer_size.
CapacityInvariant ==
    \A plan \in Plans : \A k \in 1..Len(plan) :
        SeatedIn(plan, plan[k].Room, plan[k].Date)
            <= RoomNamed(plan[k].Room).capacity - buffer_size

\* two records share a room on one date and fill it exactly to its capacity
\* less a positive buffer
CapacityWitness ==
    /\ pc = "done"
    /\ buffer_size > 0
    /\ \E i, j \in 1..Len(seating_plan_sorted) :
          /\ i < j
          /\ seating_plan_sorted[i].Room = seating_plan_sorted[j].Room
          /\ seating_plan_sorted[i].Date = seating_plan_sorted[j].Date
          /\ SeatedIn(seating_plan_sorted, seating_plan_sorted[i].Room, seating_plan_sorted[i].Date)
                = RoomNamed(seating_plan_sorted[i].Room).capacity - buffer_size

\* ------------------------------------------------------------- C2
\* C2: every roll number is in the roll list of at most one record, and the
\* roll lists of a course's records, in emission order, are consecutive
\* slices of the course's student list from its start.
NoDuplicateSeating ==
    /\ \A plan \in Plans : \A r \in 1..Len(ip_1) :
          Cardinality({k \in 1..Len(plan) : ip_1[r].roll_no \in Range(plan[k].Roll_list)}) <= 1
    /\ \A c \in Range(sorted_courses) :
          LET rolls == ConcatRolls(SelectSeq(seating_plan, LAMBDA x : x.course_code = c))
          IN rolls = SubSeq(RollsOf(c), 1, Len(rolls))

\* a course has been split over two rooms
NoDuplicateWitness ==
    /\ pc = "done"
    /\ \E i, j \in 1..Len(seating_plan_sorted) :
          /\ i # j
          /\ seating_plan_sorted[i].course_code = seating_plan_sorted[j].course_code
          /\ seating_plan_sorted[i].Roll_list # <<>>
          /\ seating_plan_sorted[j].Roll_list # <<>>

\* ------------------------------------------------------------- C3
\* C3: a call with a seating_type other than 'dense' and 'sparse' ends in the
\* ValueError before anything is allocated: it produces no record, increments
\* no occupancy count and never returns a seating plan.
InvalidModeFailsFast ==
    ~ValidMode =>
        /\ pc # "done"
        /\ seating_plan = <<>>
        /\ \A d \in DOMAIN room_allocation_by_date :
              \A r \in DOMAIN room_allocation_by_date[d] : room_allocation_by_date[d][r] = 0

\* ------------------------------------------------------------- C4
\* C4 as stated: in the result of a call with a recognised mode, every student
\* whose course has a timetable row is in exactly one record, and the students
\* of the other courses are in none.
NoSilentDrops ==
    (pc = "done" /\ ValidMode) =>
        \A r \in 1..Len(ip_1) :
            Cardinality({k \in 1..Len(seating_plan_sorted) :
                            ip_1[r].roll_no \in Range(seating_plan_sorted[k].Roll_list)})
                = IF HasDate(ip_1[r].course) THEN 1 ELSE 0

\* C4 amended: a course with a timetable row is left with unseated students
\* only after every eligible room has been visited for it; in the result the
\* first k students of such a course, k the sum of its records' counts, are in
\* exactly one record each and all other students are in none.
SeatedOnceUnlessOverflow ==
    /\ (pc = "course" /\ ci > 1 /\ HasDate(sorted_courses[ci - 1]) /\ num_students > 0)
          => ri = Len(rooms_in_order)
    /\ pc = "done" =>
          \A r \in 1..Len(ip_1) :
             LET c == ip_1[r].course
                 pos == CHOOSE q \in 1..Len(RollsOf(c)) : RollsOf(c)[q] = ip_1[r].roll_no
             IN Cardinality({k \in 1..Len(seating_plan_sorted) :
                                ip_1[r].roll_no \in Range(seating_plan_sorted[k].Roll_list)})
                  = IF HasDate(c) /\ pos <= SeatedOf(seating_plan_sorted, c) THEN 1 ELSE 0

\* a course with a timetable row is partly seated: two eligible rooms were
\* used for it and a student is still left over
OverflowWitness ==
    /\ pc = "done"
    /\ ValidMode
    /\ \E c \in Range(sorted_courses) :
          /\ HasDate(c)
          /\ SeatedOf(seating_plan_sorted, c) < GroupSize(ip_1, c)
          /\ Cardinality({k \in 1..Len(seating_plan_sorted) :
                            seating_plan_sorted[k].course_code = c}) >= 2

\* ------------------------------------------------------------- C5
\* one room considered with students left and seats remaining
ModeSemanticsStep ==
    (pc = "room" /\ ValidMode /\ num_students > 0) =>
        LET room == ip_3[rooms_in_order[ri]]
            occupancy == room_allocation_by_date[exam_date][room.room_name]
            remaining == room.capacity - buffer_size - occupancy
            take == IF seating_type = "dense"
                    THEN (IF remaining <= num_students THEN remaining ELSE num_students)
                    ELSE (IF remaining \div 2 <= num_students THEN remaining \div 2
                          ELSE num_students)
        IN remaining > 0 =>
             IF take > 0
             THEN /\ Len(seating_plan') = Len(seating_plan) + 1
                  /\ SubSeq(seating_plan', 1, Len(seating_plan)) = seating_plan
                  /\ seating_plan'[Len(seating_plan')].Allocated_students_count = take
                  /\ Len(seating_plan'[Len(seating_plan')].Roll_list) = take
                  /\ seating_plan'[Len(seating_plan')].Room = room.room_name
                  /\ room_allocation_by_date' =
                        [room_allocation_by_date EXCEPT ![exam_date][room.room_name] = @ + take]
                  /\ num_students' = num_students - take
             ELSE UNCHANGED <<seating_plan, room_allocation_by_date, num_students>>

\* one course, one eligible room, at least as many students as usable seats
SingleRoomCase ==
    (/\ pc = "done"
     /\ ValidMode
     /\ Len(sorted_courses) = 1
     /\ HasDate(sorted_courses[1])
     /\ Len(rooms_in_order) = 1
     /\ AdjustedCapacity(ip_3[rooms_in_order[1]]) > 0
     /\ Len(ip_1) >= AdjustedCapacity(ip_3[rooms_in_order[1]]))
    => LET C == AdjustedCapacity(ip_3[rooms_in_order[1]])
           want == IF seating_type = "dense" THEN C ELSE C \div 2
       IN /\ SumCounts(seating_plan_sorted) = want
          /\ Len(seating_plan_sorted) = IF want > 0 THEN 1 ELSE 0

\* C5: when a room is considered for a course with students left and
\* remaining = capacity - buffer_size - occupancy > 0, then with
\* take = min(remaining, students_left) in dense mode and
\* take = min(remaining div 2, students_left) in sparse mode: if take > 0 one
\* record with count take is appended and the occupancy grows by take, and if
\* take = 0 neither changes.  A single course of N >= C students with one
\* eligible room of adjusted capacity C > 0 is seated C in dense mode and
\* C div 2 in sparse mode.
ModeSemantics == [][ModeSemanticsStep]_vars /\ []SingleRoomCase

\* sparse mode: a second record in a room that already holds students, its
\* count half of what was then left of the room
ModeSemanticsWitness ==
    /\ seating_type = "sparse"
    /\ \E i, j \in 1..Len(seating_plan) :
          /\ i < j
          /\ seating_plan[i].Room = seating_plan[j].Room
          /\ seating_plan[i].Date = seating_plan[j].Date
          /\ seating_plan[j].Allocated_students_count =
                (AdjustedCapacity(RoomNamed(seating_plan[j].Room))
                   - seating_plan[i].Allocated_students_count) \div 2

\* ------------------------------------------------------------- C6
\* C6: records are emitted in descending order of their course's group size,
\* whatever the order of the roster: no record of a smaller course is emitted
\* before a record of a larger one, and in the result, among records of one
\* date, no record of a smaller course precedes a record of a larger one.
LargestCourseFirst ==
    /\ \A i, j \in 1..Len(seating_plan) : i < j =>
          GroupSize(ip_1, seating_plan[i].course_code)
             >= GroupSize(ip_1, seating_plan[j].course_code)
    /\ \A i, j \in 1..Len(seating_plan_sorted) :
          (i < j /\ seating_plan_sorted[i].Date = seating_plan_sorted[j].Date) =>
             GroupSize(ip_1, seating_plan_sorted[i].course_code)
                >= GroupSize(ip_1, seating_plan_sorted[j].course_code)

\* the larger of two courses of one date comes later in the roster and its
\* record comes first in the result
LargestCourseFirstWitness ==
    /\ pc = "done"
    /\ \E i, j \in 1..Len(seating_plan_sorted) :
          /\ i < j
          /\ seating_plan_sorted[i].Date = seating_plan_sorted[j].Date
          /\ GroupSize(ip_1, seating_plan_sorted[i].course_code)
                > GroupSize(ip_1, seating_plan_sorted[j].course_code)
          /\ ip_1[1].course = seating_plan_sorted[j].course_code

\* ------------------------------------------------------------- C7
\* C7: the returned sequence is non-decreasing by calendar date, holds exactly
\* the emitted records, and keeps records of equal date in emission order.
DateSortProperty ==
    pc = "done" =>
        /\ \A i, j \in 1..Len(seating_plan_sorted) : i < j =>
              LET a == seating_plan_sorted[i].Date
                  b == seating_plan_sorted[j].Date
              IN \/ a[3] < b[3]
                 \/ a[3] = b[3] /\ a[2] < b[2]
                 \/ a[3] = b[3] /\ a[2] = b[2] /\ a[1] <= b[1]
        /\ Len(seating_plan_sorted) = Len(seating_plan)
        /\ \E f \in [1..Len(seating_plan) -> 1..Len(seating_plan)] :
              /\ \A i \in 1..Len(seating_plan) : seating_plan_sorted[f[i]] = seating_plan[i]
              /\ \A i, j \in 1..Len(seating_plan) : i < j =>
                    /\ f[i] # f[j]
                    /\ seating_plan[i].Date = seating_plan[j].Date => f[i] < f[j]

\* the records were emitted with a later date first, and two of one date
DateSortWitness ==
    /\ pc = "done"
    /\ \E i, j \in 1..Len(seating_plan) :
          /\ i < j
          /\ seating_plan[i].Date = <<1, 2, 2025>>
          /\ seating_plan[j].Date = <<2, 1, 2025>>
    /\ \E i, j \in 1..Len(seating_plan) :
          i < j /\ seating_plan[i].Date = seating_plan[j].Date

\* ------------------------------------------------------------- C8
\* the turn of a course without a timetable row
MissingDateStep ==
    (pc = "course" /\ ci <= Len(sorted_courses) /\ ~HasDate(sorted_courses[ci])) =>
        /\ pc' = "course"
        /\ ci' = ci + 1
        /\ UNCHANGED <<room_allocation_by_date, seating_plan>>

\* the records are those of the courses that have a timetable row
MissingDateResult ==
    /\ \A k \in 1..Len(seating_plan) : HasDate(seating_plan[k].course_code)
    /\ (pc = "done" /\ ValidMode) =>
          LET others == AllocateCourses(SelectSeq(sorted_courses, HasDate),
                                        [occ |-> <<>>, plan |-> <<>>])
          IN /\ seating_plan = others.plan
             /\ room_allocation_by_date = others.occ

\* C8: the turn of a course without a timetable row raises nothing and changes
\* neither the records nor the occupancy table; no record names such a course;
\* and the records emitted are those the call emits for the other courses
\* alone.
MissingDateSkip == [][MissingDateStep]_vars /\ []MissingDateResult

\* the largest course has no timetable row, rooms are free when its turn
\* comes, and the course after it is seated
MissingDateWitness ==
    /\ pc = "done"
    /\ Len(sorted_courses) = 2
    /\ ~HasDate(sorted_courses[1])
    /\ GroupSize(ip_1, sorted_courses[1]) > GroupSize(ip_1, sorted_courses[2])
    /\ SeatedOf(seating_plan_sorted, sorted_courses[2]) = GroupSize(ip_1, sorted_courses[2])
    /\ \E i \in 1..Len(ip_3) : Eligible(ip_3[i]) /\ AdjustedCapacity(ip_3[i]) > 0

\* ------------------------------------------------------------- C9
\* C9: every record names a room of 'Block 9' or 'LT'; the records of one
\* course follow the order 'Block 9' before 'LT' and, within a block, larger
\* capacity first; and when a course has a record in a room, every room before
\* it in that order was considered for the course: it holds a record of the
\* course or has no usable seat left for the mode (none in dense mode, at most
\* one in sparse mode).
RoomOrderAndEligibility ==
    /\ \A k \in 1..Len(seating_plan) : Eligible(RoomNamed(seating_plan[k].Room))
    /\ \A i, j \in 1..Len(seating_plan) :
          (i < j /\ seating_plan[i].course_code = seating_plan[j].course_code) =>
             /\ seating_plan[i].Room # seating_plan[j].Room
             /\ ~VisitedBefore(RoomNamed(seating_plan[j].Room), RoomNamed(seating_plan[i].Room))
    /\ ValidMode =>
          \A k \in 1..Len(seating_plan) : \A q \in 1..Len(ip_3) :
             (Eligible(ip_3[q]) /\ VisitedBefore(ip_3[q], RoomNamed(seating_plan[k].Room))) =>
                \/ \E m \in 1..k : /\ seating_plan[m].course_code = seating_plan[k].course_code
                                  /\ seating_plan[m].Room = ip_3[q].room_name
                \/ AdjustedCapacity(ip_3[q])
                      - SeatedIn(seating_plan, ip_3[q].room_name, seating_plan[k].Date)
                   <= (IF seating_type = "dense" THEN 0 ELSE 1)

\* a course is seated in a 'Block 9' room and then in an 'LT' room that comes
\* first in the room table
RoomOrderWitness ==
    /\ pc = "done"
    /\ \E i, j \in 1..Len(seating_plan) :
          /\ i < j
          /\ seating_plan[i].course_code = seating_plan[j].course_code
          /\ RoomNamed(seating_plan[i].Room).block = "Block 9"
          /\ RoomNamed(seating_plan[j].Room).block = "LT"
          /\ seating_plan[j].Room < seating_plan[i].Room

\* ------------------------------------------------------------- C10
\* the sum of f over the finite set S
RECURSIVE SumOver(_, _)
SumOver(S, f) ==
    IF S = {} THEN 0
    ELSE LET x == CHOOSE y \in S : TRUE IN f[x] + SumOver(S \ {x}, f)

\* seats of the eligible rooms after the buffer
UsableSeats ==
    SumOver({i \in 1..Len(ip_3) : Eligible(ip_3[i]) /\ AdjustedCapacity(ip_3[i]) > 0},
            [i \in 1..Len(ip_3) |-> AdjustedCapacity(ip_3[i])])

\* C10: after a dense call, a course with a timetable row has an unseated
\* student only if every eligible room of positive adjusted capacity is filled
\* to exactly that capacity on the course's date; and on every date the
\* students seated number min(students of the courses of that date, sum of the
\* positive adjusted capacities of the eligible rooms).
DenseWorkConserving ==
    (pc = "done" /\ seating_type = "dense") =>
        /\ \A c \in Range(sorted_courses) :
              (HasDate(c) /\ SeatedOf(seating_plan_sorted, c) < GroupSize(ip_1, c)) =>
                 \A i \in 1..Len(ip_3) :
                    (Eligible(ip_3[i]) /\ AdjustedCapacity(ip_3[i]) > 0) =>
                       /\ room_allocation_by_date[DateOf(c)][ip_3[i].room_name]
                             = AdjustedCapacity(ip_3[i])
                       /\ SeatedIn(seating_plan_sorted, ip_3[i].room_name, strftime(DateOf(c)))
                             = AdjustedCapacity(ip_3[i])
        /\ \A d \in DateStrings :
              LET onDate == {c \in Range(sorted_courses) : HasDate(c) /\ DateOf(c) = strptime(d)}
                  total == SumOver(onDate, [c \in Courses |-> GroupSize(ip_1, c)])
              IN SumCounts(SelectSeq(seating_plan_sorted, LAMBDA x : x.Date = d))
                    = Min(total, UsableSeats)

\* dense mode: two courses of one date, two usable rooms, both filled, and a
\* student left over
DenseWitness ==
    /\ pc = "done"
    /\ seating_type = "dense"
    /\ Len(sorted_courses) = 2
    /\ HasDate(sorted_courses[1]) /\ HasDate(sorted_courses[2])
    /\ DateOf(sorted_courses[1]) = DateOf(sorted_courses[2])
    /\ Len(rooms_in_order) = 2
    /\ Len(seating_plan_sorted) >= 2
    /\ SumCounts(seating_plan_sorted) < Len(ip_1)

====
